---- MODULE Spec2Model ----
(***************************************************************************)
(* LexiLoop AI service: the content validator (validator.py), the story    *)
(* generator with its Redis result cache (story_generator/generator.py)    *)
(* and the /generate-story handler (main.py).                              *)
(*                                                                         *)
(* Python strings are modelled as sequences of one-character strings, so   *)
(* that the regular expressions, split(), strip() and lower() of the code  *)
(* are computed character by character.  Python floats are modelled as     *)
(* exact rationals <<numerator, denominator>>.                             *)
(***************************************************************************)
EXTENDS Integers, Sequences, FiniteSets, TLC

VARIABLES
    \* ---- validator specification (SpecVal) ----
    content,        \* the text handed to ContentValidator.validate
    vocabulary,     \* the vocabulary list handed to validate
    vpc,            \* "input" before the call, "done" after it
    vresult,        \* what validate returned: [is_valid, quality_score, raised]
    \* ---- cache key specification (SpecKey) ----
    kvocab,         \* the vocabulary handed to _generate_cache_key
    kdiff,          \* its difficulty
    ktype,          \* its story_type
    kpc,            \* "input" before the call, "done" after it
    kkey,           \* the key it returned
    \* ---- service specification (Spec) and cache specification (SpecCache) ----
    redis_client,   \* StoryGenerator.redis_client: "None" or "client"
    init_pc,        \* _initialize_redis: "created" (never awaited), "pinging", "done"
    store,          \* the Redis server: key -> [payload, expires_at, written_at, writer]
    now,            \* the clock, in hours
    speech_config,  \* AudioGenerator.speech_config: "None" or "config"
    reqs,           \* the /generate-story requests, by request id
    cpc,            \* direct cache calls: "idle", "start", "stored", "read"
    cstory,         \* the story handed to _cache_story
    cgot,           \* what _get_cached_story returned
    clog            \* when the two direct calls were made, and how the server fared

valVars == <<content, vocabulary, vpc, vresult>>

keyVars == <<kvocab, kdiff, ktype, kpc, kkey>>

redisVars == <<redis_client, init_pc, store, now>>

callVars == <<cpc, cstory, cgot, clog>>

svcVars == <<redis_client, init_pc, store, now, speech_config, reqs, cpc, cstory, cgot, clog>>

vars == <<content, vocabulary, vpc, vresult, kvocab, kdiff, ktype, kpc, kkey,
          redis_client, init_pc, store, now, speech_config, reqs, cpc, cstory, cgot, clog>>

(***************************************************************************)
(* Characters                                                              *)
(***************************************************************************)
LowerLetters ==
    <<"a","b","c","d","e","f","g","h","i","j","k","l","m",
      "n","o","p","q","r","s","t","u","v","w","x","y","z">>

UpperLetters ==
    <<"A","B","C","D","E","F","G","H","I","J","K","L","M",
      "N","O","P","Q","R","S","T","U","V","W","X","Y","Z">>

Digits == {"0","1","2","3","4","5","6","7","8","9"}

Range(f) == {f[i] : i \in DOMAIN f}

UpperSet == Range(UpperLetters)

LetterSet == Range(UpperLetters) \cup Range(LowerLetters)

\* str.isupper() of one character
IsUpper(c) == c \in UpperSet

\* [a-zA-Z]
IsLetter(c) == c \in LetterSet

\* \w of the re module: letters, digits and the underscore
IsWordChar(c) == IsLetter(c) \/ c \in Digits \/ c = "_"

\* what str.strip() and str.split() treat as white space
IsSpace(c) == c \in {" ", "\n", "\t", "\r"}

\* the class [.!?] of the sentence splitter
IsSentencePunct(c) == c \in {".", "!", "?"}

\* str.lower() of one character
LowerChar(c) ==
    IF IsUpper(c)
    THEN LowerLetters[CHOOSE i \in 1..26 : UpperLetters[i] = c]
    ELSE c

\* str.lower()
Lower(s) == SubSeq([i \in 1..Len(s) |-> LowerChar(s[i])], 1, Len(s))

\* s[first..last] for the first and last index of a set of indices
SliceAround(s, idx) ==
    IF idx = {} THEN <<>>
    ELSE SubSeq(s, CHOOSE x \in idx : \A y \in idx : x <= y,
                   CHOOSE x \in idx : \A y \in idx : x >= y)

\* str.strip()
Strip(s) == SliceAround(s, {i \in 1..Len(s) : ~IsSpace(s[i])})

\* needle in haystack (the substring test of the in operator)
Contains(hay, needle) ==
    \E i \in 1..(Len(hay) - Len(needle) + 1) :
        SubSeq(hay, i, i + Len(needle) - 1) = needle

\* str.endswith
EndsWith(s, suffix) ==
    /\ Len(s) >= Len(suffix)
    /\ SubSeq(s, Len(s) - Len(suffix) + 1, Len(s)) = suffix

\* a separator character of the sentence splitter ("punct": [.!?]) or of
\* str.split() ("space")
IsSep(c, kind) == IF kind = "punct" THEN IsSentencePunct(c) ELSE IsSpace(c)

\* where the maximal runs of separator characters start and end
RunStarts(s, kind) ==
    {i \in 1..Len(s) : IsSep(s[i], kind) /\ (i = 1 \/ ~IsSep(s[i - 1], kind))}

RunEnds(s, kind) ==
    {i \in 1..Len(s) : IsSep(s[i], kind) /\ (i = Len(s) \/ ~IsSep(s[i + 1], kind))}

\* the k-th smallest element of a set of numbers
Nth(S, k) == CHOOSE x \in S : Cardinality({y \in S : y < x}) = k - 1

\* the segments before, between and after the separator runs, the empty
\* segments at the ends included (as re.split keeps them)
SegmentsBetween(s, starts, ends, n) ==
    SubSeq([j \in 1..(n + 1) |->
               SubSeq(s, IF j = 1 THEN 1 ELSE Nth(ends, j - 1) + 1,
                         IF j = n + 1 THEN Len(s) ELSE Nth(starts, j) - 1)],
           1, n + 1)

\* Splitting at maximal runs of separator characters
SplitRuns(s, kind) ==
    SegmentsBetween(s, RunStarts(s, kind), RunEnds(s, kind),
                    Cardinality(RunStarts(s, kind)))

\* re.split(r'[.!?]+', content): always at least one segment
ReSplitSentences(s) == SplitRuns(s, "punct")

\* str.split(): the white-space delimited tokens, none of them empty
StrSplit(s) == SelectSeq(SplitRuns(s, "space"), LAMBDA w : w # <<>>)

(***************************************************************************)
(* Exact rational arithmetic for the float computations of the validator.  *)
(* A number is <<n, d>> with d > 0, in lowest terms.                       *)
(***************************************************************************)
RECURSIVE GCD(_, _)
GCD(a, b) == IF b = 0 THEN a ELSE GCD(b, a % b)

Abs(x) == IF x < 0 THEN -x ELSE x

Rat(n, d) ==
    LET g == GCD(Abs(n), d)
    IN  IF n = 0 THEN <<0, 1>> ELSE <<n \div g, d \div g>>

RAdd(a, b) == Rat(a[1] * b[2] + b[1] * a[2], a[2] * b[2])

RSub(a, b) == Rat(a[1] * b[2] - b[1] * a[2], a[2] * b[2])

RMul(a, b) == Rat(a[1] * b[1], a[2] * b[2])

RLess(a, b) == a[1] * b[2] < b[1] * a[2]

RLeq(a, b) == a[1] * b[2] <= b[1] * a[2]

RMin(a, b) == IF RLeq(a, b) THEN a ELSE b

RMax(a, b) == IF RLeq(a, b) THEN b ELSE a

RAbs(a) == <<Abs(a[1]), a[2]>>

Zero == <<0, 1>>

One == <<1, 1>>

(***************************************************************************)
(* ContentValidator (content_validator/validator.py)                       *)
(***************************************************************************)
\* self.min_quality_threshold = 0.7
min_quality_threshold == <<7, 10>>

\* self.common_words
common_words ==
    { <<"t","h","e">>   \* the
    , <<"b","e">>   \* be
    , <<"t","o">>   \* to
    , <<"o","f">>   \* of
    , <<"a","n","d">>   \* and
    , <<"a">>   \* a
    , <<"i","n">>   \* in
    , <<"t","h","a","t">>   \* that
    , <<"h","a","v","e">>   \* have
    , <<"i">>   \* i
    , <<"i","t">>   \* it
    , <<"f","o","r">>   \* for
    , <<"n","o","t">>   \* not
    , <<"o","n">>   \* on
    , <<"w","i","t","h">>   \* with
    , <<"h","e">>   \* he
    , <<"a","s">>   \* as
    , <<"y","o","u">>   \* you
    , <<"d","o">>   \* do
    , <<"a","t">>   \* at
    , <<"t","h","i","s">>   \* this
    , <<"b","u","t">>   \* but
    , <<"h","i","s">>   \* his
    , <<"b","y">>   \* by
    , <<"f","r","o","m">>   \* from
    , <<"t","h","e","y">>   \* they
    , <<"s","h","e">>   \* she
    , <<"h","e","r">>   \* her
    , <<"o","r">>   \* or
    , <<"a","n">>   \* an
    , <<"w","i","l","l">>   \* will
    , <<"m","y">>   \* my
    , <<"o","n","e">>   \* one
    , <<"a","l","l">>   \* all
    , <<"w","o","u","l","d">>   \* would
    , <<"t","h","e","r","e">>   \* there
    , <<"t","h","e","i","r">>   \* their
    , <<"w","h","a","t">>   \* what
    , <<"s","o">>   \* so
    , <<"u","p">>   \* up
    , <<"o","u","t">>   \* out
    , <<"i","f">>   \* if
    , <<"a","b","o","u","t">>   \* about
    , <<"w","h","o">>   \* who
    , <<"g","e","t">>   \* get
    , <<"w","h","i","c","h">>   \* which
    , <<"g","o">>   \* go
    , <<"m","e">>   \* me
    , <<"w","h","e","n">>   \* when
    , <<"m","a","k","e">>   \* make
    , <<"c","a","n">>   \* can
    , <<"l","i","k","e">>   \* like
    , <<"t","i","m","e">>   \* time
    , <<"n","o">>   \* no
    , <<"j","u","s","t">>   \* just
    , <<"h","i","m">>   \* him
    , <<"k","n","o","w">>   \* know
    , <<"t","a","k","e">>   \* take
    , <<"p","e","o","p","l","e">>   \* people
    , <<"i","n","t","o">>   \* into
    , <<"y","e","a","r">>   \* year
    , <<"y","o","u","r">>   \* your
    , <<"g","o","o","d">>   \* good
    , <<"s","o","m","e">>   \* some
    , <<"c","o","u","l","d">>   \* could
    , <<"t","h","e","m">>   \* them
    , <<"s","e","e">>   \* see
    , <<"o","t","h","e","r">>   \* other
    , <<"t","h","a","n">>   \* than
    , <<"t","h","e","n">>   \* then
    , <<"n","o","w">>   \* now
    , <<"l","o","o","k">>   \* look
    , <<"o","n","l","y">>   \* only
    , <<"c","o","m","e">>   \* come
    , <<"i","t","s">>   \* its
    , <<"o","v","e","r">>   \* over
    , <<"t","h","i","n","k">>   \* think
    , <<"a","l","s","o">>   \* also
    , <<"b","a","c","k">>   \* back
    , <<"a","f","t","e","r">>   \* after
    , <<"u","s","e">>   \* use
    , <<"t","w","o">>   \* two
    , <<"h","o","w">>   \* how
    , <<"o","u","r">>   \* our
    , <<"w","o","r","k">>   \* work
    , <<"f","i","r","s","t">>   \* first
    , <<"w","e","l","l">>   \* well
    , <<"w","a","y">>   \* way
    , <<"e","v","e","n">>   \* even
    , <<"n","e","w">>   \* new
    , <<"w","a","n","t">>   \* want
    , <<"b","e","c","a","u","s","e">>   \* because
    , <<"a","n","y">>   \* any
    , <<"t","h","e","s","e">>   \* these
    , <<"g","i","v","e">>   \* give
    , <<"d","a","y">>   \* day
    , <<"m","o","s","t">>   \* most
    , <<"u","s">>   \* us
    }

\* coherence_indicators['transitions']
Transitions ==
    << <<"h","o","w","e","v","e","r">>   \* however
    , <<"t","h","e","r","e","f","o","r","e">>   \* therefore
    , <<"m","e","a","n","w","h","i","l","e">>   \* meanwhile
    , <<"t","h","e","n">>   \* then
    , <<"n","e","x","t">>   \* next
    , <<"f","i","n","a","l","l","y">>   \* finally
    , <<"f","i","r","s","t">>   \* first
    , <<"s","e","c","o","n","d">>   \* second
    , <<"l","a","t","e","r">>   \* later
    , <<"a","f","t","e","r">>   \* after
    , <<"b","e","f","o","r","e">>   \* before
    >>

\* coherence_indicators['pronouns']
Pronouns ==
    << <<"h","e">>   \* he
    , <<"s","h","e">>   \* she
    , <<"i","t">>   \* it
    , <<"t","h","e","y">>   \* they
    , <<"t","h","i","s">>   \* this
    , <<"t","h","a","t">>   \* that
    , <<"t","h","e","s","e">>   \* these
    , <<"t","h","o","s","e">>   \* those
    >>

\* coherence_indicators['connectors']
Connectors ==
    << <<"a","n","d">>   \* and
    , <<"b","u","t">>   \* but
    , <<"o","r">>   \* or
    , <<"s","o">>   \* so
    , <<"b","e","c","a","u","s","e">>   \* because
    , <<"s","i","n","c","e">>   \* since
    , <<"a","l","t","h","o","u","g","h">>   \* although
    , <<"w","h","i","l","e">>   \* while
    >>

Vowels == {"a", "e", "i", "o", "u", "y"}

\* re.sub(r'(ed|es|s)$', '', word): the leftmost match is removed, so a word
\* ending in "ed" or "es" loses two characters and any other word ending in
\* "s" loses one
StripSuffix(word) ==
    IF EndsWith(word, <<"e","d">>) \/ EndsWith(word, <<"e","s">>)
    THEN SubSeq(word, 1, Len(word) - 2)
    ELSE IF EndsWith(word, <<"s">>)
         THEN SubSeq(word, 1, Len(word) - 1)
         ELSE word

\* the vowel groups of a word: a vowel that does not follow a vowel starts one
VowelGroups(word) ==
    Cardinality({i \in 1..Len(word) :
        /\ word[i] \in Vowels
        /\ (i = 1 \/ word[i - 1] \notin Vowels)})

\* the silent 'e' and the floor of 1, for a word with the suffix removed
SyllablesOfStem(word, groups) ==
    IF EndsWith(word, <<"e">>) /\ groups > 1
    THEN groups - 1
    ELSE IF groups < 1 THEN 1 ELSE groups

\* the part of _count_syllables after word = word.lower().strip()
SyllablesOfLowered(word) ==
    IF word = <<>> THEN 0
    ELSE SyllablesOfStem(StripSuffix(word), VowelGroups(StripSuffix(word)))

\* _count_syllables
count_syllables(w) == SyllablesOfLowered(Strip(Lower(w)))

\* [s.strip() for s in segments if s.strip()]
RECURSIVE StripNonEmpty(_)
StripNonEmpty(segments) ==
    IF segments = <<>> THEN <<>>
    ELSE (IF Strip(Head(segments)) = <<>> THEN <<>> ELSE <<Strip(Head(segments))>>)
         \o StripNonEmpty(Tail(segments))

\* sentences = [s.strip() for s in re.split(r'[.!?]+', content) if s.strip()]
NonEmptySentences(text) == StripNonEmpty(ReSplitSentences(text))

RECURSIVE SumSeq(_)
SumSeq(s) == IF s = <<>> THEN 0 ELSE Head(s) + SumSeq(Tail(s))

\* the words of all sentences, in order: sentence.split() for every sentence
RECURSIVE AllWords(_)
AllWords(sentences) ==
    IF sentences = <<>> THEN <<>>
    ELSE StrSplit(Head(sentences)) \o AllWords(Tail(sentences))

\* the syllable count of every word
Syllables(words) ==
    SubSeq([j \in DOMAIN words |-> count_syllables(words[j])], 1, Len(words))

\* the score of _check_readability from the totals its loops accumulate
ReadabilityFromTotals(n_sentences, total_words, total_syllables, complex_words) ==
    IF n_sentences = 0 THEN Zero
    ELSE IF total_words = 0 THEN Zero
    ELSE RMin(One,
           RMul(RAdd(RAdd(
                \* sentence_score = max(0, 1 - abs(avg_sentence_length - 15) / 15)
                RMax(Zero, RSub(One, RMul(RAbs(RSub(Rat(total_words, n_sentences),
                                                    <<15, 1>>)), <<1, 15>>))),
                \* syllable_score = max(0, 1 - abs(avg_syllables - 2) / 2)
                RMax(Zero, RSub(One, RMul(RAbs(RSub(Rat(total_syllables, total_words),
                                                    <<2, 1>>)), <<1, 2>>)))),
                \* complexity_score = max(0, 1 - complexity_ratio)
                RMax(Zero, RSub(One, Rat(complex_words, total_words)))),
                <<1, 3>>))

\* the loops of _check_readability over the words and their syllable counts
ReadabilityOfWords(n_sentences, words, syllables) ==
    ReadabilityFromTotals(n_sentences, Len(words), SumSeq(syllables),
        Cardinality({j \in DOMAIN words :
            /\ syllables[j] > 2
            /\ Lower(words[j]) \notin common_words}))

ReadabilityOfSentences(n_sentences, words) ==
    ReadabilityOfWords(n_sentences, words, Syllables(words))

SentencesReadability(sentences) ==
    ReadabilityOfSentences(Len(sentences), AllWords(sentences))

\* _check_readability
check_readability(text) == SentencesReadability(NonEmptySentences(text))

\* how many words of a list occur in the text as substrings
CountPresent(list, text) == Cardinality({i \in DOMAIN list : Contains(text, list[i])})

\* the score of _check_coherence without the rule for fewer than 3 sentences
CoherenceScore_NoMinimum(n_sentences, content_lower) ==
    RMin(One,
        RAdd(RAdd(RAdd(<<1, 2>>,
             RMin(<<1, 5>>, Rat(CountPresent(Transitions, content_lower) * 5, 100))),
             RMin(<<3, 20>>, Rat(CountPresent(Pronouns, content_lower) * 2, 100))),
             RMin(<<3, 20>>, Rat(CountPresent(Connectors, content_lower) * 3, 100))))

\* the score of _check_coherence from the number of sentences and the
\* lower-cased text
CoherenceScore(n_sentences, content_lower) ==
    IF n_sentences < 3 THEN <<3, 10>>
    ELSE RMin(One,
           RAdd(RAdd(RAdd(<<1, 2>>,
                RMin(<<1, 5>>, Rat(CountPresent(Transitions, content_lower) * 5, 100))),
                RMin(<<3, 20>>, Rat(CountPresent(Pronouns, content_lower) * 2, 100))),
                RMin(<<3, 20>>, Rat(CountPresent(Connectors, content_lower) * 3, 100))))

\* _check_coherence
check_coherence(text) == CoherenceScore(Len(NonEmptySentences(text)), Lower(text))

\* \b of the re module at the gap after character p (0 = before the text)
WordBoundary(s, p) ==
    LET before == p >= 1 /\ IsWordChar(s[p])
        after == p + 1 <= Len(s) /\ IsWordChar(s[p + 1])
    IN  before # after

\* re.search(r'\b' + re.escape(word) + r'\b', text)
WholeWordSearch(text, word) ==
    \E i \in 1..(Len(text) - Len(word) + 1) :
        /\ SubSeq(text, i, i + Len(word) - 1) = word
        /\ WordBoundary(text, i - 1)
        /\ WordBoundary(text, i + Len(word) - 1)

\* how many vocabulary words the lower-cased text holds as whole words
WordsFound(content_lower, vocab) ==
    Cardinality({i \in DOMAIN vocab : WholeWordSearch(content_lower, Lower(vocab[i]))})

\* the coverage with the words looked for as substrings, not as whole words
check_vocabulary_coverage_Substring(text, vocab) ==
    IF vocab = <<>> THEN One
    ELSE Rat(Cardinality({i \in DOMAIN vocab : Contains(Lower(text), Lower(vocab[i]))}),
             Len(vocab))

\* _check_vocabulary_coverage
check_vocabulary_coverage(text, vocab) ==
    IF vocab = <<>> THEN One
    ELSE Rat(WordsFound(Lower(text), vocab), Len(vocab))

\* The outcome of a call that may raise: a value, or the exception raised
Returned(v) == [raised |-> "none", val |-> v]

Raised(e) == [raised |-> e, val |-> Zero]

\* for sentence in sentences: if sentence and sentence[0].isupper()
CapitalizedSentences(sentences) ==
    Cardinality({i \in DOMAIN sentences :
        /\ Strip(sentences[i]) # <<>>
        /\ IsUpper(Strip(sentences[i])[1])})

\* '.' in content
HasPeriods(text) == \E i \in DOMAIN text : text[i] = "."

\* not re.search(r'[.!?][a-zA-Z]', content)
HasProperSpacing(text) ==
    ~\E i \in 1..(Len(text) - 1) : IsSentencePunct(text[i]) /\ IsLetter(text[i + 1])

\* the penalties of _check_basic_grammar applied to the capitalisation ratio
GrammarPenalties(ratio, has_periods, has_proper_spacing, run_on) ==
    RMax(Zero,
        RMul(RMul(RMul(ratio,
            IF has_periods THEN One ELSE <<8, 10>>),
            IF has_proper_spacing THEN One ELSE <<9, 10>>),
            IF run_on THEN <<8, 10>> ELSE One))

\* the body of _check_basic_grammar: both ratios divide by the number of
\* non-empty sentences, and the list re.split returns is never empty, so the
\* guard "if sentences:" never skips the first division
GrammarOf(text, n_capitalized, n_non_empty, n_words) ==
    IF n_non_empty = 0 THEN Raised("ZeroDivisionError")
    ELSE Returned(GrammarPenalties(Rat(n_capitalized, n_non_empty),
                      HasPeriods(text), HasProperSpacing(text),
                      n_words > 0 /\ RLess(<<30, 1>>, Rat(n_words, n_non_empty))))

\* _check_basic_grammar
check_basic_grammar(text) ==
    GrammarOf(text, CapitalizedSentences(ReSplitSentences(text)),
              Len(NonEmptySentences(text)), Len(StrSplit(text)))

\* the issue tags of _comprehensive_validation, in the order they are appended
Issues(text, vocab_coverage, readability_score, coherence_score, grammar_score) ==
    (IF Len(Strip(text)) < 100 THEN <<"Content too short">> ELSE <<>>)
    \o (IF Len(Strip(text)) > 1500 THEN <<"Content too long">> ELSE <<>>)
    \o (IF RLess(vocab_coverage, <<8, 10>>) THEN <<"Low vocabulary coverage">> ELSE <<>>)
    \o (IF RLess(readability_score, <<5, 10>>) THEN <<"Poor readability">> ELSE <<>>)
    \o (IF RLess(coherence_score, <<6, 10>>) THEN <<"Poor coherence">> ELSE <<>>)
    \o (IF RLess(grammar_score, <<7, 10>>) THEN <<"Grammar issues detected">> ELSE <<>>)

\* QualityScore with the weights forgotten: the plain sum of the sub-scores
QualityScore_Unweighted(vocab_coverage, readability_score, coherence_score, grammar_score) ==
    RAdd(RAdd(RAdd(vocab_coverage, readability_score), coherence_score), grammar_score)

\* quality_score = vocab*0.3 + readability*0.25 + coherence*0.25 + grammar*0.2
QualityScore(vocab_coverage, readability_score, coherence_score, grammar_score) ==
    RAdd(RAdd(RAdd(RMul(vocab_coverage, <<3, 10>>),
                   RMul(readability_score, <<25, 100>>)),
              RMul(coherence_score, <<25, 100>>)),
         RMul(grammar_score, <<2, 10>>))

\* is_valid = quality_score >= self.min_quality_threshold and len(issues) <= 2
IsValid(quality_score, issues) ==
    RLeq(min_quality_threshold, quality_score) /\ Len(issues) <= 2

\* the ValidationResult built from the four sub-scores; the exception of the
\* grammar check leaves _comprehensive_validation without a result
ValidationResult(text, vocab_coverage, readability_score, coherence_score, grammar) ==
    IF grammar.raised # "none"
    THEN [raised |-> grammar.raised, is_valid |-> FALSE, quality_score |-> Zero,
          issues |-> <<>>, vocabulary_coverage |-> vocab_coverage,
          readability_score |-> readability_score,
          coherence_score |-> coherence_score, grammar_score |-> Zero]
    ELSE [raised |-> "none",
          is_valid |-> IsValid(QualityScore(vocab_coverage, readability_score,
                                            coherence_score, grammar.val),
                               Issues(text, vocab_coverage, readability_score,
                                      coherence_score, grammar.val)),
          quality_score |-> QualityScore(vocab_coverage, readability_score,
                                         coherence_score, grammar.val),
          issues |-> Issues(text, vocab_coverage, readability_score,
                            coherence_score, grammar.val),
          vocabulary_coverage |-> vocab_coverage,
          readability_score |-> readability_score,
          coherence_score |-> coherence_score, grammar_score |-> grammar.val]

\* _comprehensive_validation
comprehensive_validation(text, vocab) ==
    ValidationResult(text, check_vocabulary_coverage(text, vocab),
                     check_readability(text), check_coherence(text),
                     check_basic_grammar(text))

\* what validate's except clause makes of an exception: (False, 0.0)
CatchAll(r) ==
    IF r.raised # "none"
    THEN [raised |-> "none", is_valid |-> FALSE, quality_score |-> Zero]
    ELSE [raised |-> "none", is_valid |-> r.is_valid, quality_score |-> r.quality_score]

\* the outcome of _comprehensive_validation passed on as it is
Propagate(r) ==
    [raised |-> r.raised, is_valid |-> r.is_valid, quality_score |-> r.quality_score]

\* validate without its try/except: the exception of the validation escapes
validate_NoCatch(text, vocab) == Propagate(comprehensive_validation(text, vocab))

\* validate: (is_valid, quality_score); an exception of the validation is
\* caught and answered with (False, 0.0)
validate(text, vocab) == CatchAll(comprehensive_validation(text, vocab))

(***************************************************************************)
(* StoryGenerator._generate_cache_key (story_generator/generator.py)       *)
(***************************************************************************)
\* the printable ASCII characters in code point order, from 32 (space) on;
\* the backtick (96) keeps its place under a name
Printable ==
    << " ", "!", "\"", "#", "$", "%", "&", "'", "(", ")", "*", "+", ",", "-", ".", "/",
       "0", "1", "2", "3", "4", "5", "6", "7", "8", "9", ":", ";", "<", "=", ">", "?",
       "@", "A", "B", "C", "D", "E", "F", "G", "H", "I", "J", "K", "L", "M", "N", "O",
       "P", "Q", "R", "S", "T", "U", "V", "W", "X", "Y", "Z", "[", "\\", "]", "^", "_",
       "(backtick)", "a", "b", "c", "d", "e", "f", "g", "h", "i", "j", "k", "l", "m", "n", "o",
       "p", "q", "r", "s", "t", "u", "v", "w", "x", "y", "z", "{", "|", "}", "~" >>

\* ord(c)
CodePoint(c) == 31 + (CHOOSE i \in DOMAIN Printable : Printable[i] = c)

\* a <= b for two strings, decided at the first index where they differ
\* (diff is the set of such indices)
StrLeqAt(a, b, diff) ==
    IF diff = {} THEN Len(a) <= Len(b)
    ELSE CodePoint(a[CHOOSE i \in diff : \A j \in diff : i <= j])
           < CodePoint(b[CHOOSE i \in diff : \A j \in diff : i <= j])

\* a <= b in the order of str
StrLeq(a, b) ==
    StrLeqAt(a, b, {i \in 1..(IF Len(a) < Len(b) THEN Len(a) ELSE Len(b)) : a[i] # b[i]})

\* x put into a sorted list, after the elements that are <= x
RECURSIVE Insert(_, _)
Insert(x, s) ==
    IF s = <<>> THEN <<x>>
    ELSE IF StrLeq(Head(s), x) THEN <<Head(s)>> \o Insert(x, Tail(s))
    ELSE <<x>> \o s

\* sorted(vocabulary)
RECURSIVE sorted(_)
sorted(s) == IF s = <<>> THEN <<>> ELSE Insert(s[Len(s)], sorted(SubSeq(s, 1, Len(s) - 1)))

\* one character of a string inside repr()
ReprChar(c, quote) ==
    IF c = "\\" THEN <<"\\", "\\">>
    ELSE IF c = quote THEN <<"\\", c>>
    ELSE IF c = "\n" THEN <<"\\", "n">>
    ELSE IF c = "\t" THEN <<"\\", "t">>
    ELSE IF c = "\r" THEN <<"\\", "r">>
    ELSE <<c>>

RECURSIVE ReprChars(_, _)
ReprChars(s, quote) ==
    IF s = <<>> THEN <<>> ELSE ReprChar(Head(s), quote) \o ReprChars(Tail(s), quote)

\* repr(s) of a str: double quotes when s holds a single quote and no
\* double quote, single quotes otherwise
ReprStr(s) ==
    IF (\E i \in DOMAIN s : s[i] = "'") /\ ~(\E i \in DOMAIN s : s[i] = "\"")
    THEN <<"\"">> \o ReprChars(s, "\"") \o <<"\"">>
    ELSE <<"'">> \o ReprChars(s, "'") \o <<"'">>

RECURSIVE ReprItems(_)
ReprItems(l) ==
    IF l = <<>> THEN <<>>
    ELSE IF Len(l) = 1 THEN ReprStr(l[1])
    ELSE ReprStr(Head(l)) \o <<",", " ">> \o ReprItems(Tail(l))

\* str(list): what the f-string makes of {sorted_vocab}
ReprList(l) == <<"[">> \o ReprItems(l) \o <<"]">>

DigitChars == <<"0","1","2","3","4","5","6","7","8","9">>

\* str(n) of an int
RECURSIVE IntStr(_)
IntStr(n) ==
    IF n < 0 THEN <<"-">> \o IntStr(-n)
    ELSE IF n < 10 THEN <<DigitChars[n + 1]>>
    ELSE IntStr(n \div 10) \o <<DigitChars[(n % 10) + 1]>>

\* KeyString with the separators left out: f"{sorted_vocab}{difficulty}{story_type}"
KeyString_Unseparated(sorted_vocab, difficulty, story_type) ==
    ReprList(sorted_vocab) \o IntStr(difficulty) \o story_type

\* key_string = f"{sorted_vocab}_{difficulty}_{story_type}"
KeyString(sorted_vocab, difficulty, story_type) ==
    ReprList(sorted_vocab) \o <<"_">> \o IntStr(difficulty) \o <<"_">> \o story_type

\* hashlib.md5(key_string.encode()).hexdigest(): the digest is not computed;
\* it is a value that determines, and is determined by, the string hashed
Md5Hex(key_string) == <<"md5", key_string>>

\* _generate_cache_key with the sort left out
generate_cache_key_Unsorted(vocab, difficulty, story_type) ==
    Md5Hex(KeyString(vocab, difficulty, story_type))

\* _generate_cache_key
generate_cache_key(vocab, difficulty, story_type) ==
    Md5Hex(KeyString(sorted(vocab), difficulty, story_type))

\* validate has returned nothing yet
NoResult == [raised |-> "none", is_valid |-> FALSE, quality_score |-> Zero]

\* no cache key is computed yet
NoKey == Md5Hex(<<>>)

(***************************************************************************)
(* The state of the service: StoryGenerator, the Redis server behind its   *)
(* client, AudioGenerator and the requests in flight                       *)
(***************************************************************************)
NumReqs == 2

Reqs == 1..NumReqs

\* Optional[Story]: None
NoStory == [none |-> TRUE]

\* a request that has not arrived
IdleRequest ==
    [pc |-> "idle", vocabulary |-> <<>>, difficulty |-> 1, story_type |-> <<>>,
     max_length |-> 800, cache_key |-> NoKey, probe |-> "none", reply |-> "none",
     probed_at |-> -1,
     gen_calls |-> 0,
     story |-> NoStory, wrote |-> "none", validated |-> FALSE, is_valid |-> FALSE,
     quality_score |-> Zero, audio |-> "none", audio_url |-> "None",
     status |-> 0, detail |-> "", raised |-> "none"]

\* the direct cache calls not made yet
NoCalls == [set_at |-> -1, set_ok |-> TRUE, read_at |-> -1, read_ok |-> TRUE]

\* no key is held by the server
EmptyStore == [k \in {} |-> 0]

\* the service variables while the service is not in use
SvcIdle ==
    /\ redis_client = "None"
    /\ init_pc = "created"
    /\ store = EmptyStore
    /\ now = 0
    /\ speech_config = "None"
    /\ reqs = [r \in Reqs |-> IdleRequest]
    /\ cpc = "idle"
    /\ cstory = NoStory
    /\ cgot = NoStory
    /\ clog = NoCalls

(***************************************************************************)
(* StoryGenerator: the result cache (story_generator/generator.py)         *)
(***************************************************************************)
\* _cache_story(self, story, expire_hours: int = 24)
expire_hours == 24

\* datetime.now()
DateTime(t) == [kind |-> "datetime", t |-> t]

\* created_at.isoformat(): a str
IsoFormat(dt) == [kind |-> "str", t |-> dt.t]

\* Story(...)
Story(story_content, vocabulary_used, word_count, difficulty, story_type, cache_key, created_at) ==
    [none |-> FALSE, content |-> story_content, vocabulary_used |-> vocabulary_used,
     word_count |-> word_count, difficulty |-> difficulty, story_type |-> story_type,
     cache_key |-> cache_key, created_at |-> created_at]

\* story_data of _cache_story: the fields of the story, created_at as a str
StoryData(story) ==
    [content |-> story.content, vocabulary_used |-> story.vocabulary_used,
     word_count |-> story.word_count, difficulty |-> story.difficulty,
     story_type |-> story.story_type, cache_key |-> story.cache_key,
     created_at |-> IsoFormat(story.created_at)]

\* json.dumps(story_data): strings, ints and lists of strings come back from
\* json.loads as they went in
JsonDumps(data) == [kind |-> "json", data |-> data]

\* Story(**story_data): the decoded fields as they are, created_at still a str
StoryFromData(data) ==
    Story(data.content, data.vocabulary_used, data.word_count, data.difficulty,
          data.story_type, data.cache_key, data.created_at)

\* f"story:{cache_key}"
StoreKey(cache_key) == <<"story:", cache_key>>

\* The server's answer to GET: the payload of the key, nil when the key is
\* not held or has expired (Redis: a key is expired once now > its expiry)
RedisGet(st, key, t) ==
    IF key \in DOMAIN st /\ ~(t > st[key].expires_at)
    THEN st[key].payload
    ELSE [kind |-> "nil"]

\* a server that keeps the payload it already holds for the key
RedisSetEx_KeepFirst(st, key, ttl, payload, t, writer) ==
    [k \in DOMAIN st \cup {key} |->
        IF k = key /\ k \notin DOMAIN st
        THEN [payload |-> payload, expires_at |-> t + ttl, written_at |-> t,
              writer |-> writer]
        ELSE st[k]]

\* The server after SETEX key ttl payload at time t (writer: the request on
\* whose behalf it was sent, 0 for none)
RedisSetEx(st, key, ttl, payload, t, writer) ==
    [k \in DOMAIN st \cup {key} |->
        IF k = key
        THEN [payload |-> payload, expires_at |-> t + ttl, written_at |-> t,
              writer |-> writer]
        ELSE st[k]]

\* the outcome of a cache read
Got(exc, story) == [raised |-> exc, story |-> story]

\* the try block of _get_cached_story on the server's reply
TryGet(reply) ==
    IF reply.kind = "error" THEN Got("ConnectionError", NoStory)
    ELSE IF reply.kind \in {"nil", "empty"} THEN Got("none", NoStory)
    ELSE IF reply.kind = "invalid_json" THEN Got("JSONDecodeError", NoStory)
    ELSE IF reply.kind = "wrong_fields" THEN Got("TypeError", NoStory)
    ELSE Got("none", StoryFromData(reply.data))

\* except Exception of _get_cached_story: logged, then return None
CatchGet(got) == IF got.raised # "none" THEN Got("none", NoStory) ELSE got

\* _get_cached_story without its except clause
get_cached_story_NoCatch(client, reply) ==
    IF client = "None" THEN Got("none", NoStory) ELSE TryGet(reply)

\* _get_cached_story, given the server's reply
get_cached_story(client, reply) ==
    IF client = "None" THEN Got("none", NoStory) ELSE CatchGet(TryGet(reply))

\* the outcome of a cache write
Stored(exc, st) == [raised |-> exc, store |-> st]

\* the expiry taken as days: timedelta(days=expire_hours), in hours
Ttl_Days(hours) == 24 * hours

\* timedelta(hours=expire_hours), in hours
Ttl(hours) == hours

\* the try block of _cache_story
TrySet(story, st, t, backend_ok, writer) ==
    IF backend_ok
    THEN Stored("none", RedisSetEx(st, StoreKey(story.cache_key), Ttl(expire_hours),
                                   JsonDumps(StoryData(story)), t, writer))
    ELSE Stored("ConnectionError", st)

\* except Exception of _cache_story: logged
CatchSet(stored) == Stored("none", stored.store)

\* _cache_story
cache_story(client, story, st, t, backend_ok, writer) ==
    IF client = "None" THEN Stored("none", st)
    ELSE CatchSet(TrySet(story, st, t, backend_ok, writer))

(***************************************************************************)
(* SpecKey: _generate_cache_key applied to bounded inputs.  The words and  *)
(* story types hold the characters of the key string's own punctuation.    *)
(***************************************************************************)
MaxVocab == 2

KeyWords ==
    { <<"a">>   \* a
    , <<"b">>   \* b
    , <<"B">>   \* B
    , <<"a","'",","," ","'","b">>   \* a', 'b
    , <<"a","_","1">>   \* a_1
    }

KeyVocabularies == UNION {[1..n -> KeyWords] : n \in 0..MaxVocab}

KeyDifficulties == {1, 11}

KeyTypes ==
    { <<"g","e","n","e","r","a","l">>   \* general
    , <<"a","d","v","e","n","t","u","r","e">>   \* adventure
    , <<"1","g","e","n","e","r","a","l">>   \* 1general
    }

\* the cache key variables while no key is computed
KeyIdle ==
    /\ kvocab = <<>>
    /\ kdiff = 1
    /\ ktype = <<>>
    /\ kpc = "idle"
    /\ kkey = NoKey

ValIdle ==
    /\ content = <<>>
    /\ vocabulary = <<>>
    /\ vpc = "idle"
    /\ vresult = NoResult

InitKey ==
    /\ kvocab \in KeyVocabularies
    /\ kdiff \in KeyDifficulties
    /\ ktype \in KeyTypes
    /\ kpc = "input"
    /\ kkey = NoKey
    /\ ValIdle
    /\ SvcIdle

\* cache_key = self._generate_cache_key(vocabulary, difficulty, story_type)
GenerateCacheKey ==
    /\ kpc = "input"
    /\ kkey' = generate_cache_key(kvocab, kdiff, ktype)
    /\ kpc' = "done"
    /\ UNCHANGED <<kvocab, kdiff, ktype>>
    /\ UNCHANGED valVars
    /\ UNCHANGED svcVars

NextKey == GenerateCacheKey

SpecKey == InitKey /\ [][NextKey]_vars

(***************************************************************************)
(* Claims about _generate_cache_key, checked under SpecKey                 *)
(***************************************************************************)
\* the rearrangements of a sequence
Rearrangements(s) ==
    {[i \in 1..Len(s) |-> s[f[i]]] :
        f \in {g \in [1..Len(s) -> 1..Len(s)] :
                  \A i, j \in 1..Len(s) : g[i] = g[j] => i = j}}

\* the same words, each the same number of times
SameMultiset(a, b) ==
    \A w \in Range(a) \cup Range(b) :
        Cardinality({i \in DOMAIN a : a[i] = w}) = Cardinality({i \in DOMAIN b : b[i] = w})

\* C6: for every vocabulary V, every permutation P of V, every difficulty d
\* and content type c, _generate_cache_key(V, d, c) = _generate_cache_key(P, d, c).
C6_PermutationInvariant ==
    kpc = "done" =>
        \A p \in Rearrangements(kvocab) : generate_cache_key(p, kdiff, ktype) = kkey

\* C6 witness: a key was computed for a vocabulary that is not in sorted
\* order, so that it has a permutation other than itself
C6_Witness ==
    /\ kpc = "done"
    /\ Len(kvocab) >= 2
    /\ \E i \in 1..(Len(kvocab) - 1) : ~StrLeq(kvocab[i], kvocab[i + 1])

\* C7: changing the difficulty, the content type or the multiset of
\* vocabulary words yields a different canonical string and hence (the hash
\* taken as injective) a different key: no two distinct (sorted vocabulary,
\* difficulty, contentType) triples produce the same canonical string.
C7_KeySeparates ==
    kpc = "done" =>
        \A v \in KeyVocabularies : \A d \in KeyDifficulties : \A t \in KeyTypes :
            (~SameMultiset(v, kvocab) \/ d # kdiff \/ t # ktype)
                => /\ KeyString(sorted(v), d, t) # kkey[2]
                   /\ generate_cache_key(v, d, t) # kkey

\* C7 witness: a key was computed for a word that holds the punctuation of
\* the list's own rendering, with a story type that starts with a digit
C7_Witness ==
    /\ kpc = "done"
    /\ Len(kvocab) = 1
    /\ \E i \in DOMAIN kvocab[1] : kvocab[1][i] = "'"
    /\ kdiff = 1
    /\ ktype[1] = "1"

(***************************************************************************)
(* SpecVal: ContentValidator.validate applied to bounded inputs.  A text   *)
(* is a concatenation of at most MaxPieces pieces; the pieces give empty,  *)
(* blank and punctuation-only texts, sentences with and without a capital, *)
(* with and without a full stop, and a missing space after punctuation.    *)
(***************************************************************************)
MaxPieces == 3

TextPieces ==
    << <<"T","h","e"," ","b","r","a","v","e"," ","d","o","g"," ","r","a","n"," ","t","o"," ","t","h","e"," ","o","l","d"," ","p","a","r","k"," ","a","n","d"," ","t","h","e","n"," ","i","t"," ","s","a","t","."," ">>   \* "The brave dog ran to the old park and then it sat. "
     , <<"s","h","e"," ","w","i","l","l"," ","e","x","p","l","o","r","e"," ","t","h","e"," ","m","y","s","t","e","r","i","o","u","s"," ","f","o","r","e","s","t">>   \* "she will explore the mysterious forest"
     , <<"H","o","w","e","v","e","r",","," ","t","h","e","y"," ","d","i","s","c","o","v","e","r"," ","a","d","v","e","n","t","u","r","e","!">>   \* "However, they discover adventure!"
     , <<".">>
     , <<" ">>
    >>

RECURSIVE Concat(_)
Concat(ps) == IF ps = <<>> THEN <<>> ELSE TextPieces[Head(ps)] \o Concat(Tail(ps))

\* how many times the first piece is repeated in the long text
LongPieces == 30

\* a text of more than 1500 characters
LongText == Concat(SubSeq([i \in 1..LongPieces |-> 1], 1, LongPieces))

\* a text of three sentences that holds enough transition words, pronouns
\* and connectors to reach the cap of each bonus
MarkerText ==
    <<"H","o","w","e","v","e","r",","," ","t","h","e","r","e","f","o","r","e",","," ","m","e","a","n","w","h","i","l","e",","," ","t","h","e","n"," ","n","e","x","t"," ","f","i","n","a","l","l","y","."," ","S","h","e"," ","i","t"," ","t","h","e","y"," ","t","h","i","s"," ","t","h","a","t"," ","t","h","e","s","e"," ","t","h","o","s","e","."," ","A","n","d"," ","b","u","t"," ","o","r"," ","s","o"," ","b","e","c","a","u","s","e"," ","s","i","n","c","e"," ","a","l","t","h","o","u","g","h"," ","w","h","i","l","e",".">>   \* "However, therefore, meanwhile, then next finally. She it they this that these those. And but or so because since although while."

Texts ==
    {Concat(ps) : ps \in UNION {[1..n -> DOMAIN TextPieces] : n \in 0..MaxPieces}}
        \cup {LongText, MarkerText}

Vocabularies ==
    { <<>>
    , << <<"d","o","g">> >>   \* ["dog"]
    , << <<"E","x","p","l","o","r","e">>, <<"a","d","v","e","n","t","u","r","e">> >>   \* ["Explore", "adventure"]
    , << <<"d","o","g">>, <<"p","a","r","k">>, <<"z","e","b","r","a">>, <<"s","a","t">>, <<"o","l","d">> >>   \* ["dog", "park", "zebra", "sat", "old"]
    , << <<"p","a","r","k">>, <<"h","e">> >>   \* ["park", "he"]
    }

InitVal ==
    /\ content \in Texts
    /\ vocabulary \in Vocabularies
    /\ vpc = "input"
    /\ vresult = NoResult
    /\ KeyIdle
    /\ SvcIdle

\* is_valid, quality_score = await content_validator.validate(content, vocabulary)
Validate ==
    /\ vpc = "input"
    /\ vresult' = validate(content, vocabulary)
    /\ vpc' = "done"
    /\ UNCHANGED <<content, vocabulary>>
    /\ UNCHANGED keyVars
    /\ UNCHANGED svcVars

NextVal == Validate

SpecVal == InitVal /\ [][NextVal]_vars

(***************************************************************************)
(* Claims about ContentValidator.validate, checked under SpecVal           *)
(***************************************************************************)
\* the part of the composite that does not come from the grammar scorer
PartialScore(text, vocab) ==
    RAdd(RAdd(RMul(check_vocabulary_coverage(text, vocab), <<3, 10>>),
              RMul(check_readability(text), <<25, 100>>)),
         RMul(check_coherence(text), <<25, 100>>))

\* C8: for every text and vocabulary the score returned by validate is
\* 0.30*coverage + 0.25*readability + 0.25*coherence + 0.20*grammar of the
\* four sub-scores of that input, and isValid is true exactly when that
\* composite is >= 0.70 and there are at most 2 issues.  Where the grammar
\* scorer returns no number, any grammar sub-score in [0,1] is accepted.
C8_ScoreIsWeightedSum ==
    vpc = "done" =>
        LET g == check_basic_grammar(content)
            rest == RSub(vresult.quality_score, PartialScore(content, vocabulary))
            issues == Issues(content, check_vocabulary_coverage(content, vocabulary),
                             check_readability(content), check_coherence(content), g.val)
        IN  /\ IF g.raised = "none"
               THEN rest = RMul(g.val, <<2, 10>>)
               ELSE RLeq(Zero, rest) /\ RLeq(rest, <<2, 10>>)
            /\ g.raised = "none" =>
                  (vresult.is_valid <=>
                      (RLeq(<<7, 10>>, vresult.quality_score) /\ Len(issues) <= 2))

\* C9: the composite score returned by validate lies in [0,1], and whenever
\* validate returns isValid = true the composite is >= 0.70.
C9_ScoreInRange ==
    vpc = "done" =>
        /\ RLeq(Zero, vresult.quality_score)
        /\ RLeq(vresult.quality_score, One)
        /\ vresult.is_valid => RLeq(<<7, 10>>, vresult.quality_score)

\* C9 witness: validate has accepted a text
C9_Witness == vpc = "done" /\ vresult.is_valid /\ Len(vocabulary) > 0

\* C10: validate never raises: for every text (empty, blank and
\* punctuation-only included) and every vocabulary (the empty list included)
\* it returns an (isValid, score) pair.
C10_ValidateNeverRaises ==
    vpc = "done" =>
        /\ vresult.raised = "none"
        /\ vresult.is_valid \in BOOLEAN
        /\ vresult.quality_score \in Int \X Int

\* C10 witness: validate has returned for a text on which the validation
\* itself raised
C10_Witness ==
    /\ vpc = "done"
    /\ comprehensive_validation(content, vocabulary).raised # "none"
    /\ vresult.raised = "none"

\* C11: no internal scorer raises: on every text, the empty text, blank
\* text and text of sentence punctuation only included, the coverage,
\* readability, coherence and grammar scorers each return a number.
C11_ScorersNeverRaise ==
    vpc = "done" =>
        /\ check_vocabulary_coverage(content, vocabulary) \in Int \X Int
        /\ check_readability(content) \in Int \X Int
        /\ check_coherence(content) \in Int \X Int
        /\ check_basic_grammar(content).raised = "none"

\* C12: on a text that a scorer cannot score (a text without a sentence)
\* the sub-metric takes its minimum and the composite is still the weighted
\* sum of the sub-scores: with grammar at its minimum 0, the score returned
\* is 0.30*coverage + 0.25*readability + 0.25*coherence.
C12_DegradesPerSubMetric ==
    (vpc = "done" /\ NonEmptySentences(content) = <<>>) =>
        vresult.quality_score = PartialScore(content, vocabulary)

\* the tags of a sequence of issues
TagsOf(issues) == {issues[i] : i \in DOMAIN issues}

\* C13: the issue list of the validation result holds "Content too short"
\* for every text whose trimmed length is below 100 (the empty text
\* included), "Content too long" for every text whose trimmed length is
\* above 1500, and never both.
C13_LengthTags ==
    vpc = "done" =>
        /\ Len(Strip(content)) < 100 =>
              "Content too short" \in TagsOf(comprehensive_validation(content, vocabulary).issues)
        /\ Len(Strip(content)) > 1500 =>
              "Content too long" \in TagsOf(comprehensive_validation(content, vocabulary).issues)
        /\ ~({"Content too short", "Content too long"}
                \subseteq TagsOf(comprehensive_validation(content, vocabulary).issues))

\* the word occurs in the text, letter case aside, with no word character
\* next to the occurrence on either side
AppearsAsWholeWord(text, word) ==
    \E i \in 1..(Len(text) - Len(word) + 1) :
        /\ \A j \in 1..Len(word) : LowerChar(text[i + j - 1]) = LowerChar(word[j])
        /\ i = 1 \/ ~IsWordChar(text[i - 1])
        /\ i + Len(word) > Len(text) \/ ~IsWordChar(text[i + Len(word)])

\* how many entries of the vocabulary appear in the text as whole words
EntriesFound(text, vocab) ==
    Cardinality({i \in DOMAIN vocab : AppearsAsWholeWord(text, vocab[i])})

\* C14: for a non-empty vocabulary the coverage is the number of entries
\* found in the text as case-insensitive whole words divided by the number
\* of entries; it lies in [0,1] and is 1 when every entry is found.
C14_CoverageIsFraction ==
    (vpc = "done" /\ vocabulary # <<>>) =>
        /\ check_vocabulary_coverage(content, vocabulary)
              = Rat(EntriesFound(content, vocabulary), Len(vocabulary))
        /\ RLeq(Zero, check_vocabulary_coverage(content, vocabulary))
        /\ RLeq(check_vocabulary_coverage(content, vocabulary), One)
        /\ EntriesFound(content, vocabulary) = Len(vocabulary) =>
              check_vocabulary_coverage(content, vocabulary) = One

\* the coverage of a text that holds both entries of a vocabulary, one of
\* them in another letter case, has been computed
C14_Witness ==
    /\ vpc = "done"
    /\ Len(vocabulary) = 2
    /\ EntriesFound(content, vocabulary) = 2
    /\ ~Contains(content, vocabulary[1])
    /\ check_vocabulary_coverage(content, vocabulary) = One

\* min(1.0, 0.5 + min(0.20, 0.05*t) + min(0.15, 0.02*p) + min(0.15, 0.03*c))
CoherenceFormula(t, p, c) ==
    RMin(One, RAdd(RAdd(RAdd(<<1, 2>>, RMin(<<20, 100>>, Rat(5 * t, 100))),
                        RMin(<<15, 100>>, Rat(2 * p, 100))),
                   RMin(<<15, 100>>, Rat(3 * c, 100))))

\* C17: the coherence score of a text with fewer than 3 non-empty sentences
\* is 0.3; with 3 or more it is the formula above for the numbers t, p, c of
\* transition words, pronouns and connectors of the fixed lists that occur
\* in the lower-cased text; it is always 0.3 or in [0.5, 1.0].
C17_CoherenceScore ==
    vpc = "done" =>
        /\ Len(NonEmptySentences(content)) < 3 => check_coherence(content) = <<3, 10>>
        /\ Len(NonEmptySentences(content)) >= 3 =>
              check_coherence(content)
                  = CoherenceFormula(CountPresent(Transitions, Lower(content)),
                                     CountPresent(Pronouns, Lower(content)),
                                     CountPresent(Connectors, Lower(content)))
        /\ \/ check_coherence(content) = <<3, 10>>
           \/ /\ RLeq(<<1, 2>>, check_coherence(content))
              /\ RLeq(check_coherence(content), One)

\* the coherence of a text of 3 sentences in which every bonus is above its
\* cap has been computed
C17_Witness ==
    /\ vpc = "done"
    /\ Len(NonEmptySentences(content)) >= 3
    /\ CountPresent(Transitions, Lower(content)) > 4
    /\ CountPresent(Pronouns, Lower(content)) > 7
    /\ CountPresent(Connectors, Lower(content)) > 5
    /\ check_coherence(content) = One

(***************************************************************************)
(* The clock and the Redis connection, shared by Spec and SpecCache        *)
(***************************************************************************)
MaxTicks == 2

TickHours == 13

\* time passes
Tick ==
    /\ now < MaxTicks * TickHours
    /\ now' = now + TickHours
    /\ UNCHANGED <<redis_client, init_pc, store, speech_config, reqs>>
    /\ UNCHANGED callVars
    /\ UNCHANGED valVars
    /\ UNCHANGED keyVars

\* _initialize_redis up to its first await.  The constructor only creates
\* the coroutine; this step is taken when a caller awaits it, which is taken
\* to happen at start-up, before a request is received.  from_url either
\* hands back a client, which is then pinged, or raises.
InitializeRedisStart ==
    /\ init_pc = "created"
    /\ \A r \in Reqs : reqs[r].pc = "idle"
    /\ \E from_url_ok \in BOOLEAN :
          IF from_url_ok
          THEN redis_client' = "client" /\ init_pc' = "pinging"
          ELSE redis_client' = "None" /\ init_pc' = "done"
    /\ UNCHANGED <<store, now, speech_config, reqs>>
    /\ UNCHANGED callVars
    /\ UNCHANGED valVars
    /\ UNCHANGED keyVars

\* _initialize_redis after await self.redis_client.ping(): a failed ping
\* sets the client back to None
InitializeRedisPing ==
    /\ init_pc = "pinging"
    /\ \E ping_ok \in BOOLEAN :
          redis_client' = IF ping_ok THEN "client" ELSE "None"
    /\ init_pc' = "done"
    /\ UNCHANGED <<store, now, speech_config, reqs>>
    /\ UNCHANGED callVars
    /\ UNCHANGED valVars
    /\ UNCHANGED keyVars

(***************************************************************************)
(* SpecCache: _cache_story and _get_cached_story called one after the      *)
(* other on a StoryGenerator                                               *)
(***************************************************************************)
\* what the text generator may answer, before .strip()
GoodText == Concat(<<1, 1, 1>>)

BadText == Concat(<<2>>)

GeneratorOutputs == {GoodText, BadText}

\* the requests that may arrive
RequestInputs ==
    { [vocabulary |-> << <<"d","o","g">>, <<"p","a","r","k">> >>, difficulty |-> 1,
       story_type |-> <<"g","e","n","e","r","a","l">>, max_length |-> 800]
    , [vocabulary |-> << <<"d","o","g">>, <<"p","a","r","k">> >>, difficulty |-> 1,
       story_type |-> <<"g","e","n","e","r","a","l">>, max_length |-> 400]
    , [vocabulary |-> << <<"z","e","b","r","a">> >>, difficulty |-> 2,
       story_type |-> <<"a","d","v","e","n","t","u","r","e">>, max_length |-> 800]
    , [vocabulary |-> <<>>, difficulty |-> 1,
       story_type |-> <<"g","e","n","e","r","a","l">>, max_length |-> 800]
    , [vocabulary |-> SubSeq([i \in 1..21 |-> <<"d","o","g">>], 1, 21), difficulty |-> 1,
       story_type |-> <<"g","e","n","e","r","a","l">>, max_length |-> 800]
    }

\* the stories handed to _cache_story directly
CacheStories ==
    {Story(Strip(text), used, count, inp.difficulty, inp.story_type,
           generate_cache_key(inp.vocabulary, inp.difficulty, inp.story_type),
           DateTime(0)) :
        text \in GeneratorOutputs, used \in {<<>>, << <<"d","o","g">> >>}, count \in {6, 36},
        inp \in {i \in RequestInputs : Len(i.vocabulary) \in 1..2}}

InitCache ==
    /\ redis_client = "None"
    /\ init_pc = "created"
    /\ store = EmptyStore
    /\ now = 0
    /\ speech_config = "None"
    /\ reqs = [r \in Reqs |-> IdleRequest]
    /\ cpc = "start"
    /\ cstory \in CacheStories
    /\ cgot = NoStory
    /\ clog = NoCalls
    /\ ValIdle
    /\ KeyIdle

\* await self._cache_story(story)
CallCacheStory ==
    /\ cpc = "start"
    /\ \E backend_ok \in BOOLEAN :
          /\ store' = cache_story(redis_client, cstory, store, now, backend_ok, 0).store
          /\ clog' = [clog EXCEPT !.set_at = now, !.set_ok = backend_ok]
    /\ cpc' = "stored"
    /\ UNCHANGED <<redis_client, init_pc, now, speech_config, reqs, cstory, cgot>>
    /\ UNCHANGED valVars
    /\ UNCHANGED keyVars

\* await self._get_cached_story(story.cache_key)
CallGetCachedStory ==
    /\ cpc = "stored"
    /\ \E backend_ok \in BOOLEAN :
          /\ cgot' = get_cached_story(redis_client,
                        IF backend_ok
                        THEN RedisGet(store, StoreKey(cstory.cache_key), now)
                        ELSE [kind |-> "error"]).story
          /\ clog' = [clog EXCEPT !.read_at = now, !.read_ok = backend_ok]
    /\ cpc' = "read"
    /\ UNCHANGED <<redis_client, init_pc, store, now, speech_config, reqs, cstory>>
    /\ UNCHANGED valVars
    /\ UNCHANGED keyVars

NextCache ==
    \/ InitializeRedisStart
    \/ InitializeRedisPing
    \/ CallCacheStory
    \/ CallGetCachedStory
    \/ Tick

SpecCache == InitCache /\ [][NextCache]_vars

(***************************************************************************)
(* Spec: the /generate-story handler (main.py) over StoryGenerator,        *)
(* ContentValidator and AudioGenerator.  A request advances in one step    *)
(* from one await that suspends it to the next: the cache read, the text   *)
(* generator, the cache write and the speech synthesis.                    *)
(***************************************************************************)
\* the stripped texts a story may hold, and the vocabularies of the requests
StoryContents == {Strip(text) : text \in GeneratorOutputs}

RequestVocabularies == {inp.vocabulary : inp \in RequestInputs}

\* content_validator.validate on the stories and vocabularies of the model
ValidationTable ==
    [p \in StoryContents \X RequestVocabularies |-> validate(p[1], p[2])] @@ <<>>

HandlerValidate(story_content, vocab) == ValidationTable[<<story_content, vocab>>]

\* vocabulary_used: the words found in the lower-cased story as substrings
VocabularyUsed(story_content, vocab) ==
    SelectSeq(vocab, LAMBDA word : Contains(Lower(story_content), Lower(word)))

\* generate_story from the generator's answer to the fields of the Story
\* that depend on the text: content.strip(), vocabulary_used, word_count
GeneratedTable ==
    [p \in GeneratorOutputs \X RequestVocabularies |->
        [content |-> Strip(p[1]),
         vocabulary_used |-> VocabularyUsed(Strip(p[1]), p[2]),
         word_count |-> Len(StrSplit(Strip(p[1])))]] @@ <<>>

\* a key that also depends on max_length
KeyTable_WithLength ==
    [inp \in RequestInputs |->
        <<generate_cache_key(inp.vocabulary, inp.difficulty, inp.story_type),
          inp.max_length>>] @@ <<>>

\* _generate_cache_key on the requests of the model
KeyTable ==
    [inp \in RequestInputs |->
        generate_cache_key(inp.vocabulary, inp.difficulty, inp.story_type)] @@ <<>>

BuildStory(text, req, t) ==
    Story(GeneratedTable[<<text, req.vocabulary>>].content,
          GeneratedTable[<<text, req.vocabulary>>].vocabulary_used,
          GeneratedTable[<<text, req.vocabulary>>].word_count,
          req.difficulty, req.story_type, req.cache_key, DateTime(t))

\* raise HTTPException(status_code, detail)
Fail(req, status, detail) ==
    [req EXCEPT !.pc = "done", !.status = status, !.detail = detail]

\* what generate_audio hands back: an exception or the audio reference
Audio(exc, url) == [raised |-> exc, url |-> url]

\* the try block of generate_audio on the outcome of the synthesis: a file
\* when it completed, None when it was cancelled, an exception otherwise
TrySynthesis(outcome) ==
    IF outcome = "completed" THEN Audio("none", "/audio/story_audio.mp3")
    ELSE IF outcome = "canceled" THEN Audio("none", "None")
    ELSE Audio("Exception", "None")

\* except Exception of generate_audio: logged, return None
CatchSynthesis(audio) == IF audio.raised # "none" THEN Audio("none", "None") ELSE audio

\* generate_audio: None at once when the speech service is not configured
generate_audio(speech, outcome) ==
    IF speech = "None" THEN Audio("none", "None")
    ELSE CatchSynthesis(TrySynthesis(outcome))

\* a handler that answers 500 when there is no audio reference
AfterAudio_Required(req, audio) ==
    IF audio.raised # "none" \/ audio.url = "None"
    THEN Fail(req, 500, "Internal server error: audio generation failed")
    ELSE [req EXCEPT !.pc = "done", !.status = 200, !.audio_url = audio.url]

\* the handler after generate_audio: an exception is logged and audio_url
\* stays None; the StoryResponse is returned
AfterAudio(req, audio) ==
    [req EXCEPT !.pc = "done", !.status = 200,
                !.audio_url = IF audio.raised # "none" THEN "None" ELSE audio.url]

\* the handler from "if not is_valid" to the call of generate_audio, which
\* returns None at once when the speech service is not configured
Respond(req, speech) ==
    IF ~req.is_valid
    THEN Fail(req, 500, "Generated content quality is insufficient")
    ELSE IF speech = "None"
         THEN AfterAudio([req EXCEPT !.audio = "skipped"],
                         generate_audio(speech, "completed"))
         ELSE [req EXCEPT !.pc = "audio"]

\* the handler once generate_story has returned a story: validate it
AfterStory(req, story, v, speech) ==
    Respond([req EXCEPT !.story = story, !.validated = TRUE,
                        !.is_valid = v.is_valid, !.quality_score = v.quality_score],
            speech)

\* a generate_story that calls the text generator whatever the cache returned
AfterProbe_AlwaysGenerate(req, got, speech) ==
    [req EXCEPT !.pc = "generating", !.gen_calls = @ + 1,
                !.probe = IF got.story = NoStory
                          THEN (IF @ = "skipped" THEN @ ELSE "miss")
                          ELSE "hit"]

\* a handler that takes a story from the cache as already accepted
AfterProbe_TrustCache(req, got, speech) ==
    IF got.story = NoStory
    THEN [req EXCEPT !.pc = "generating", !.gen_calls = @ + 1,
                     !.probe = IF @ = "skipped" THEN @ ELSE "miss"]
    ELSE Respond([req EXCEPT !.probe = "hit", !.story = got.story,
                             !.validated = TRUE, !.is_valid = TRUE], speech)

\* generate_story after _get_cached_story: a cached story is returned, a
\* miss goes on to the text generator
AfterProbe(req, got, speech) ==
    IF got.raised # "none"
    THEN Fail([req EXCEPT !.raised = got.raised], 500, "Internal server error")
    ELSE IF got.story = NoStory
         THEN [req EXCEPT !.pc = "generating", !.gen_calls = @ + 1,
                          !.probe = IF @ = "skipped" THEN @ ELSE "miss"]
         ELSE AfterStory([req EXCEPT !.probe = "hit"], got.story,
                         HandlerValidate(got.story.content, req.vocabulary), speech)

\* generate_story up to its first await: without a client _get_cached_story
\* returns None at once
StartGenerate(req, client, speech) ==
    IF client = "None"
    THEN AfterProbe([req EXCEPT !.probe = "skipped"],
                    get_cached_story(client, [kind |-> "nil"]), speech)
    ELSE [req EXCEPT !.pc = "probing"]

\* a handler without "except HTTPException: raise": its catch-all turns the
\* 400 of the vocabulary checks into a 500
Arrive_NoReraise(req, inp, client, speech) ==
    IF Len(inp.vocabulary) = 0
    THEN Fail(req, 500, "Internal server error: Vocabulary list cannot be empty")
    ELSE IF Len(inp.vocabulary) > 20
         THEN Fail(req, 500, "Internal server error: Too many vocabulary words (max 20)")
         ELSE StartGenerate([req EXCEPT !.cache_key = KeyTable[inp]], client, speech)

\* the handler from the arrival of the request to its first await
Arrive(req, inp, client, speech) ==
    IF Len(inp.vocabulary) = 0
    THEN Fail(req, 400, "Vocabulary list cannot be empty")
    ELSE IF Len(inp.vocabulary) > 20
         THEN Fail(req, 400, "Too many vocabulary words (max 20)")
         ELSE StartGenerate([req EXCEPT !.cache_key = KeyTable[inp]], client, speech)

\* a handler that goes on with an empty story when the generator call fails
AfterGenerateFailure_GoesOn(req, speech) ==
    Respond([req EXCEPT !.validated = TRUE, !.is_valid = TRUE], speech)

\* the generator call raises inside the try block of generate_story: the
\* exception is raised again as "Story generation failed" before Story is
\* built or _cache_story is called, and the handler's catch-all answers 500
AfterGenerateFailure(req, speech) ==
    Fail(req, 500, "Internal server error: Story generation failed")

\* generate_story once the story is built: without a client _cache_story
\* returns at once, with one the request waits for SETEX
AfterBuild(req, story, client, speech) ==
    IF client = "None"
    THEN AfterStory([req EXCEPT !.wrote = "skipped"], story,
                    HandlerValidate(story.content, req.vocabulary), speech)
    ELSE [req EXCEPT !.story = story, !.pc = "caching"]

\* generate_story after _cache_story; an exception inside the try block is
\* raised again as "Story generation failed" and answered with 500
AfterCache(req, stored, backend_ok, speech) ==
    IF stored.raised # "none"
    THEN Fail([req EXCEPT !.raised = stored.raised, !.wrote = "error"], 500,
              "Internal server error: Story generation failed")
    ELSE AfterStory([req EXCEPT !.wrote = IF backend_ok THEN "ok" ELSE "error"],
                    req.story, HandlerValidate(req.story.content, req.vocabulary),
                    speech)

\* a constructor that leaves a connected client behind
Init_Connected ==
    /\ redis_client = "client"
    /\ init_pc = "created"
    /\ store = EmptyStore
    /\ now = 0
    /\ speech_config \in {"None", "config"}
    /\ reqs = [r \in Reqs |-> IdleRequest]
    /\ cpc = "idle"
    /\ cstory = NoStory
    /\ cgot = NoStory
    /\ clog = NoCalls
    /\ ValIdle
    /\ KeyIdle

\* the service as constructed: StoryGenerator.__init__ leaves redis_client
\* None and only creates the coroutine of _initialize_redis
Init ==
    /\ redis_client = "None"
    /\ init_pc = "created"
    /\ store = EmptyStore
    /\ now = 0
    /\ speech_config \in {"None", "config"}
    /\ reqs = [r \in Reqs |-> IdleRequest]
    /\ cpc = "idle"
    /\ cstory = NoStory
    /\ cgot = NoStory
    /\ clog = NoCalls
    /\ ValIdle
    /\ KeyIdle

\* POST /generate-story arrives; requests are numbered in order of arrival,
\* and none is served while the connection routine is being awaited
Receive(r) ==
    /\ reqs[r].pc = "idle"
    /\ init_pc # "pinging"
    /\ \A q \in Reqs : q < r => reqs[q].pc # "idle"
    /\ \E inp \in RequestInputs :
          reqs' = [reqs EXCEPT ![r] =
                      Arrive([@ EXCEPT !.vocabulary = inp.vocabulary,
                                       !.difficulty = inp.difficulty,
                                       !.story_type = inp.story_type,
                                       !.max_length = inp.max_length],
                             inp, redis_client, speech_config)]
    /\ UNCHANGED <<redis_client, init_pc, store, now, speech_config>>
    /\ UNCHANGED callVars
    /\ UNCHANGED valVars
    /\ UNCHANGED keyVars

\* what may come back from GET key: the payload the server holds (nil when
\* it holds none), that payload damaged (no JSON, JSON without the fields of
\* a Story, an empty string), or a connection error
Replies(st, key, t) ==
    {RedisGet(st, key, t), [kind |-> "error"]}
        \cup (IF RedisGet(st, key, t).kind = "json"
              THEN {[kind |-> "invalid_json"], [kind |-> "wrong_fields"],
                    [kind |-> "empty"]}
              ELSE {})

\* the server answers the GET of _get_cached_story, or the call fails
GetReply(r) ==
    /\ reqs[r].pc = "probing"
    /\ \E reply \in Replies(store, StoreKey(reqs[r].cache_key), now) :
          reqs' = [reqs EXCEPT ![r] =
                      AfterProbe([@ EXCEPT !.reply = reply.kind, !.probed_at = now],
                                 get_cached_story("client", reply), speech_config)]
    /\ UNCHANGED <<redis_client, init_pc, store, now, speech_config>>
    /\ UNCHANGED callVars
    /\ UNCHANGED valVars
    /\ UNCHANGED keyVars

\* the text generator answers, or the call fails
GenReply(r) ==
    /\ reqs[r].pc = "generating"
    /\ \/ reqs' = [reqs EXCEPT ![r] = AfterGenerateFailure(@, speech_config)]
       \/ \E text \in GeneratorOutputs :
             reqs' = [reqs EXCEPT ![r] =
                         AfterBuild(@, BuildStory(text, @, now),
                                    redis_client, speech_config)]
    /\ UNCHANGED <<redis_client, init_pc, store, now, speech_config>>
    /\ UNCHANGED callVars
    /\ UNCHANGED valVars
    /\ UNCHANGED keyVars

\* the server answers the SETEX of _cache_story, or the call fails
SetReply(r) ==
    /\ reqs[r].pc = "caching"
    /\ \E backend_ok \in BOOLEAN :
          /\ store' = cache_story("client", reqs[r].story, store, now, backend_ok, r).store
          /\ reqs' = [reqs EXCEPT ![r] =
                         AfterCache(@, cache_story("client", @.story, store, now,
                                                   backend_ok, r),
                                    backend_ok, speech_config)]
    /\ UNCHANGED <<redis_client, init_pc, now, speech_config>>
    /\ UNCHANGED callVars
    /\ UNCHANGED valVars
    /\ UNCHANGED keyVars

\* the synthesis started by generate_audio ends: completed, cancelled, or
\* with an exception
AudioReply(r) ==
    /\ reqs[r].pc = "audio"
    /\ \E outcome \in {"completed", "canceled", "error"} :
          reqs' = [reqs EXCEPT ![r] =
                      AfterAudio([@ EXCEPT !.audio = outcome],
                                 generate_audio(speech_config, outcome))]
    /\ UNCHANGED <<redis_client, init_pc, store, now, speech_config>>
    /\ UNCHANGED callVars
    /\ UNCHANGED valVars
    /\ UNCHANGED keyVars

Next ==
    \/ \E r \in Reqs : Receive(r)
    \/ \E r \in Reqs : GetReply(r)
    \/ \E r \in Reqs : GenReply(r)
    \/ \E r \in Reqs : SetReply(r)
    \/ \E r \in Reqs : AudioReply(r)
    \/ InitializeRedisStart
    \/ InitializeRedisPing
    \/ Tick

Spec == Init /\ [][Next]_vars

(***************************************************************************)
(* Claims about the cache round trip, checked under SpecCache              *)
(***************************************************************************)
\* C3: on a StoryGenerator as built by its constructor (the connection
\* routine never awaited), storing a story under its key with _cache_story
\* and reading the key at once with _get_cached_story returns a story equal
\* to the one stored.
C3_RoundTrip ==
    (/\ cpc = "read"
     /\ init_pc = "created"
     /\ clog.read_at = clog.set_at
     /\ clog.set_ok /\ clog.read_ok)
        => cgot = cstory

(***************************************************************************)
(* Claims about the generation flow, checked under Spec                    *)
(***************************************************************************)
\* the requests that went through generate_story with a key
Keyed(r) == reqs[r].cache_key # NoKey

\* request r takes the step that ends its cache read / its cache write
ProbeStep(r) == reqs[r].pc = "probing" /\ reqs'[r].pc # "probing"

WriteStep(r) == reqs[r].pc = "caching" /\ reqs'[r].pc # "caching"

\* C1: every payload held in the result cache belongs to a story for which
\* validation returned is_valid = true: the request that wrote it has
\* validated its story and the story was accepted.
C1_CachedOnlyIfAccepted ==
    \A k \in DOMAIN store :
        store[k].payload.kind = "json" =>
            /\ reqs[store[k].writer].validated
            /\ reqs[store[k].writer].is_valid

\* two requests for one key that have both read the cache while neither has
\* written back
BothProbedNoneWrote(a, b) ==
    /\ a # b
    /\ Keyed(a) /\ reqs[a].cache_key = reqs[b].cache_key
    /\ reqs[a].probe \in {"miss", "hit"} /\ reqs[b].probe \in {"miss", "hit"}
    /\ reqs[a].pc \in {"generating", "caching"}
    /\ reqs[b].pc \in {"generating", "caching"}

\* a successful write of request r leaves r's payload under r's key
LastWriteWins(r) ==
    (WriteStep(r) /\ reqs'[r].wrote = "ok") =>
        /\ StoreKey(reqs[r].cache_key) \in DOMAIN store'
        /\ store'[StoreKey(reqs[r].cache_key)].payload
              = JsonDumps(StoryData(reqs[r].story))

\* C2: when two generate_story calls for the same key have both read the
\* cache before either has written back, both have missed, both have called
\* the text generator once, neither has raised and neither is failed by the
\* cache afterwards; every write that succeeds leaves the writer's payload
\* in the cache, so the payload held at the end is the last writer's.
C2_BothMissLastWriteWins ==
    /\ [](\A a, b \in Reqs :
            BothProbedNoneWrote(a, b) =>
                /\ reqs[a].probe = "miss" /\ reqs[b].probe = "miss"
                /\ reqs[a].gen_calls = 1 /\ reqs[b].gen_calls = 1)
    /\ [](\A r \in Reqs : reqs[r].raised = "none")
    /\ [][\A r \in Reqs : LastWriteWins(r)]_vars

\* both requests read at time 0 a cache that held nothing, both wrote, and
\* the cache holds the payload of one while the other wrote another payload
C2_Witness ==
    \E a, b \in Reqs :
        /\ a # b
        /\ Keyed(a) /\ reqs[a].cache_key = reqs[b].cache_key
        /\ now = 0
        /\ reqs[a].reply = "nil" /\ reqs[b].reply = "nil"
        /\ reqs[a].gen_calls = 1 /\ reqs[b].gen_calls = 1
        /\ reqs[a].wrote = "ok" /\ reqs[b].wrote = "ok"
        /\ reqs[a].story # reqs[b].story
        /\ store[StoreKey(reqs[a].cache_key)].writer = b
        /\ store[StoreKey(reqs[a].cache_key)].payload
              = JsonDumps(StoryData(reqs[b].story))

\* the entry of key k was written more than expire_hours ago
TtlElapsed(k) == k \in DOMAIN store /\ now > store[k].written_at + expire_hours

\* C4: once the time to live of an entry has elapsed, GET of its key answers
\* nil, _get_cached_story returns no story, and a request that reads the key
\* goes on to the text generator as on a miss.
C4_ExpiredIsAbsent ==
    /\ [](\A k \in DOMAIN store :
            TtlElapsed(k) =>
                /\ RedisGet(store, k, now) = [kind |-> "nil"]
                /\ get_cached_story("client", RedisGet(store, k, now)).story = NoStory)
    /\ [][\A r \in Reqs :
            (ProbeStep(r) /\ TtlElapsed(StoreKey(reqs[r].cache_key))) =>
                /\ reqs'[r].probe = "miss"
                /\ reqs'[r].pc = "generating"
                /\ reqs'[r].gen_calls = reqs[r].gen_calls + 1]_vars

\* a request read its key after the entry another request wrote had expired
C4_Witness ==
    \E r \in Reqs :
        /\ Keyed(r) /\ TtlElapsed(StoreKey(reqs[r].cache_key))
        /\ store[StoreKey(reqs[r].cache_key)].writer # r
        /\ reqs[r].probed_at > store[StoreKey(reqs[r].cache_key)].written_at + expire_hours
        /\ reqs[r].reply = "nil"
        /\ reqs[r].probe = "miss"
        /\ reqs[r].pc = "generating"

\* the answers to GET on which the cache read fails
FailedReplies == {"error", "invalid_json", "wrong_fields", "empty"}

\* C5: a cache read that fails (connection error, a payload that is no JSON
\* or has not the fields of a Story) returns no story and is handled as a
\* miss; a cache write that fails leaves the cache as it was; in either case
\* no exception reaches generate_story and the handler receives the
\* generated story.
C5_CacheIsAdvisory ==
    /\ [](\A kind \in FailedReplies :
            get_cached_story("client", [kind |-> kind]) = Got("none", NoStory))
    /\ [](\A r \in Reqs :
            /\ reqs[r].raised = "none"
            /\ reqs[r].reply \in FailedReplies =>
                  reqs[r].probe = "miss" /\ reqs[r].gen_calls = 1
            /\ reqs[r].wrote = "error" =>
                  reqs[r].story # NoStory /\ reqs[r].validated)
    /\ [][\A r \in Reqs :
            (WriteStep(r) /\ reqs'[r].wrote = "error") => store' = store]_vars

\* a request whose cache read and cache write both failed was answered with
\* its generated story
C5_Witness ==
    \E r \in Reqs :
        /\ reqs[r].reply \in FailedReplies
        /\ reqs[r].wrote = "error"
        /\ reqs[r].pc = "done"
        /\ reqs[r].status = 200
        /\ reqs[r].story # NoStory

\* C15: whenever validation has accepted the story of a request, the
\* request goes on to the speech synthesis and is answered 200 with the
\* story and its quality score whatever the synthesis does; when the speech
\* service is not configured, cancels or raises, the answer holds no audio
\* reference.
C15_SpeechIsOptional ==
    \A r \in Reqs :
        (reqs[r].validated /\ reqs[r].is_valid) =>
            /\ reqs[r].pc \in {"audio", "done"}
            /\ reqs[r].pc = "done" =>
                  /\ reqs[r].status = 200
                  /\ reqs[r].story # NoStory
                  /\ reqs[r].quality_score
                        = HandlerValidate(reqs[r].story.content,
                                          reqs[r].vocabulary).quality_score
                  /\ reqs[r].audio \in {"skipped", "canceled", "error"} =>
                        reqs[r].audio_url = "None"

\* a request whose synthesis raised was answered 200 without audio
C15_Witness ==
    \E r \in Reqs :
        /\ reqs[r].audio = "error"
        /\ reqs[r].pc = "done"
        /\ reqs[r].status = 200
        /\ reqs[r].audio_url = "None"
        /\ reqs[r].story # NoStory

\* the live entry the server holds under the key of request r
LiveEntry(r) ==
    /\ StoreKey(reqs[r].cache_key) \in DOMAIN store
    /\ RedisGet(store, StoreKey(reqs[r].cache_key), now).kind = "json"

\* C16: every generate_story call looks its key up with _get_cached_story
\* before the text generator is called; the generator is called, once, only
\* after the lookup returned no entry; a call whose lookup returned an entry
\* returns that entry, calls no generator and leaves the cache as it is.
C16_ProbeBeforeGenerate ==
    /\ [](\A r \in Reqs :
            /\ Keyed(r) =>
                  reqs[r].cache_key = generate_cache_key(reqs[r].vocabulary,
                                          reqs[r].difficulty, reqs[r].story_type)
            /\ reqs[r].gen_calls \in {0, 1}
            /\ reqs[r].gen_calls = 1 => reqs[r].probe \in {"miss", "skipped"}
            /\ reqs[r].probe = "hit" =>
                  /\ reqs[r].gen_calls = 0
                  /\ reqs[r].wrote = "none"
                  /\ reqs[r].story # NoStory)
    /\ [][\A r \in Reqs :
            /\ reqs'[r].gen_calls # reqs[r].gen_calls =>
                  /\ reqs[r].probe \in {"none"}
                  /\ reqs'[r].probe \in {"miss", "skipped"}
            /\ (ProbeStep(r) /\ reqs'[r].probe = "hit") =>
                  /\ LiveEntry(r)
                  /\ reqs'[r].story
                        = StoryFromData(store[StoreKey(reqs[r].cache_key)].payload.data)
                  /\ store' = store]_vars

\* a request was answered from the cache without a call of the generator
C16_Witness ==
    \E r \in Reqs :
        /\ reqs[r].probe = "hit"
        /\ reqs[r].gen_calls = 0
        /\ reqs[r].pc = "done"
        /\ reqs[r].status = 200
        /\ store[StoreKey(reqs[r].cache_key)].writer # r

\* C18: while the StoryGenerator is as its constructor left it (the
\* connection routine created, never awaited) the cache client is absent:
\* _get_cached_story returns no entry whatever the server holds,
\* _cache_story writes nothing, and every generate_story call has called
\* the text generator.
C18_ClientAbsent ==
    init_pc = "created" =>
        /\ redis_client = "None"
        /\ store = EmptyStore
        /\ \A kind \in {"nil", "json", "error"} :
              get_cached_story(redis_client, [kind |-> kind]).story = NoStory
        /\ \A r \in Reqs :
              /\ reqs[r].story # NoStory =>
                    cache_story(redis_client, reqs[r].story, store, now, TRUE, r).store
                        = store
              /\ Keyed(r) =>
                    /\ reqs[r].probe = "skipped"
                    /\ reqs[r].gen_calls = 1
                    /\ reqs[r].wrote \in {"none", "skipped"}

\* two requests for one key were both answered with a story of their own
\* generator call, nothing having been cached in between
C18_Witness ==
    /\ init_pc = "created"
    /\ \E a, b \in Reqs :
          /\ a < b
          /\ Keyed(a) /\ reqs[a].cache_key = reqs[b].cache_key
          /\ reqs[a].status = 200 /\ reqs[b].status = 200
          /\ reqs[a].wrote = "skipped" /\ reqs[b].wrote = "skipped"
          /\ reqs[a].gen_calls = 1 /\ reqs[b].gen_calls = 1
          /\ reqs[b].story.created_at.t > reqs[a].story.created_at.t

\* the server holds, not expired, a story under the key of request r that
\* validation rejects for r's vocabulary
LiveRejectedEntry(r) ==
    /\ LiveEntry(r)
    /\ ~HandlerValidate(store[StoreKey(reqs[r].cache_key)].payload.data.content,
                        reqs[r].vocabulary).is_valid

\* C19: a story that validation rejects stays in the cache when its request
\* is answered 500, and every later request that reads it back under the
\* same key before it expires is answered 500 "Generated content quality is
\* insufficient" without a call of the text generator.
C19_RejectedStaysCached ==
    /\ [](\A r \in Reqs :
            (reqs[r].probe = "hit" /\ ~reqs[r].is_valid) =>
                /\ reqs[r].validated
                /\ reqs[r].pc = "done"
                /\ reqs[r].status = 500
                /\ reqs[r].detail = "Generated content quality is insufficient"
                /\ reqs[r].gen_calls = 0)
    /\ [][\A r \in Reqs :
            /\ (WriteStep(r) /\ reqs'[r].wrote = "ok" /\ ~reqs'[r].is_valid) =>
                  /\ reqs'[r].status = 500
                  /\ StoreKey(reqs[r].cache_key) \in DOMAIN store'
                  /\ store'[StoreKey(reqs[r].cache_key)].payload
                        = JsonDumps(StoryData(reqs[r].story))
            /\ (ProbeStep(r) /\ LiveRejectedEntry(r) /\ reqs'[r].reply = "json") =>
                  /\ reqs'[r].probe = "hit"
                  /\ reqs'[r].status = 500
                  /\ reqs'[r].detail = "Generated content quality is insufficient"
                  /\ reqs'[r].gen_calls = 0
                  /\ store' = store]_vars

\* a request read back, some time after it was written, the rejected story
\* of an earlier request and was answered 500 without a generator call
C19_Witness ==
    \E a, b \in Reqs :
        /\ a # b
        /\ Keyed(b) /\ StoreKey(reqs[b].cache_key) \in DOMAIN store
        /\ store[StoreKey(reqs[b].cache_key)].writer = a
        /\ reqs[a].wrote = "ok" /\ ~reqs[a].is_valid /\ reqs[a].status = 500
        /\ reqs[b].probe = "hit"
        /\ reqs[b].probed_at > store[StoreKey(reqs[b].cache_key)].written_at
        /\ reqs[b].status = 500
        /\ reqs[b].gen_calls = 0

\* C20: max_length is no part of the cache key: requests with the same
\* vocabulary, difficulty and story type have the same key whatever their
\* max_length, and a request that finds an entry under its key is served that
\* entry, whatever the max_length of the request that wrote it.
C20_MaxLengthNotInKey ==
    /\ [](\A a, b \in Reqs :
            (/\ Keyed(a) /\ Keyed(b)
             /\ reqs[a].vocabulary = reqs[b].vocabulary
             /\ reqs[a].difficulty = reqs[b].difficulty
             /\ reqs[a].story_type = reqs[b].story_type)
                => reqs[a].cache_key = reqs[b].cache_key)
    /\ [][\A r \in Reqs :
            (ProbeStep(r) /\ LiveEntry(r) /\ reqs'[r].reply = "json") =>
                /\ reqs'[r].probe = "hit"
                /\ reqs'[r].gen_calls = 0
                /\ reqs'[r].story
                      = StoryFromData(store[StoreKey(reqs[r].cache_key)].payload.data)]_vars

\* a request with max_length 400 was served the story generated for a
\* request with max_length 800, or the other way round
C20_Witness ==
    \E a, b \in Reqs :
        /\ Keyed(a) /\ reqs[a].cache_key = reqs[b].cache_key
        /\ reqs[a].max_length # reqs[b].max_length
        /\ reqs[a].gen_calls = 1 /\ reqs[a].wrote = "ok"
        /\ reqs[b].probe = "hit" /\ reqs[b].gen_calls = 0
        /\ reqs[b].story = StoryFromData(StoryData(reqs[a].story))
        /\ reqs[b].status = 200

\* the step in which the generator call of request r fails: r leaves
\* "generating" and no story was built
GeneratorFails(r) ==
    /\ reqs[r].pc = "generating"
    /\ reqs'[r].pc # "generating"
    /\ reqs'[r].story = NoStory

\* request r was answered with the error generate_story raises
FailedGeneration(r) ==
    reqs[r].detail = "Internal server error: Story generation failed"

\* C21: when the generator call fails, generate_story raises "Story
\* generation failed", the handler answers 500 in that same step, the cache
\* is left as it was (the request writes no entry), and neither validation
\* nor speech synthesis runs for the request, then or later
C21_GeneratorFailure ==
    /\ [][\A r \in Reqs :
             GeneratorFails(r) =>
                /\ reqs'[r].pc = "done"
                /\ reqs'[r].status = 500
                /\ FailedGeneration(r)'
                /\ store' = store]_vars
    /\ [](\A r \in Reqs :
             FailedGeneration(r) =>
                /\ reqs[r].pc = "done"
                /\ reqs[r].status = 500
                /\ reqs[r].gen_calls = 1
                /\ reqs[r].story = NoStory
                /\ reqs[r].wrote = "none"
                /\ ~reqs[r].validated
                /\ reqs[r].audio = "none"
                /\ reqs[r].raised = "none")

\* a request missed a connected cache, its generator call failed, and the
\* cache holds nothing under its key
C21_Witness ==
    \E r \in Reqs :
        /\ FailedGeneration(r)
        /\ reqs[r].probe = "miss"
        /\ reqs[r].gen_calls = 1
        /\ reqs[r].status = 500
        /\ StoreKey(reqs[r].cache_key) \notin DOMAIN store

\* the vocabulary of request r is empty or has more than 20 words
BadVocabulary(req) ==
    Len(req.vocabulary) = 0 \/ Len(req.vocabulary) > 20

\* nothing after the vocabulary checks has run for the request
NothingRan(req) ==
    /\ req.cache_key = NoKey
    /\ req.probe = "none"
    /\ req.gen_calls = 0
    /\ req.story = NoStory
    /\ req.wrote = "none"
    /\ ~req.validated
    /\ req.audio = "none"

\* C22: a request whose vocabulary is empty or has more than 20 words is
\* answered 400 in the step of its arrival, with the message of the check it
\* failed and not a 500 of the catch-all; no cache probe, generator call,
\* cache write, validation or speech synthesis runs for it, and the cache is
\* left as it was
C22_BadVocabularyRejected ==
    /\ [][\A r \in Reqs :
             (reqs[r].pc = "idle" /\ reqs'[r].pc # "idle" /\ BadVocabulary(reqs'[r])) =>
                /\ reqs'[r].pc = "done"
                /\ reqs'[r].status = 400
                /\ store' = store]_vars
    /\ [](\A r \in Reqs :
             (reqs[r].pc # "idle" /\ BadVocabulary(reqs[r])) =>
                /\ reqs[r].pc = "done"
                /\ reqs[r].status = 400
                /\ reqs[r].detail = IF Len(reqs[r].vocabulary) = 0
                                    THEN "Vocabulary list cannot be empty"
                                    ELSE "Too many vocabulary words (max 20)"
                /\ reqs[r].raised = "none"
                /\ NothingRan(reqs[r]))

\* a request of 21 words was answered 400 while the cache holds the story an
\* earlier request wrote
C22_Witness ==
    \E a, b \in Reqs :
        /\ a < b
        /\ reqs[a].wrote = "ok"
        /\ StoreKey(reqs[a].cache_key) \in DOMAIN store
        /\ Len(reqs[b].vocabulary) = 21
        /\ reqs[b].status = 400
        /\ reqs[b].detail = "Too many vocabulary words (max 20)"
        /\ NothingRan(reqs[b])

====
